---- MODULE Spec2Model ----
(***************************************************************************)
(* EbmLib: the activation library (ebmlib/units.py) and the Restricted     *)
(* Boltzmann Machine class (ebmlib/rbm/rbm.py).                            *)
(*                                                                         *)
(* `loaded` tells what has become of the module ebmlib.rbm.rbm: "no" while *)
(* nothing has run, "ImportError" once importing it has failed, "class"    *)
(* once the class Rbm is defined.                                          *)
(*                                                                         *)
(* numpy arrays are objects: a model and a state mapping hold references   *)
(* (addresses into `heap`), so that copying and aliasing are different     *)
(* things.  An array is a record [shape, data, fn]: `data` is the row-major*)
(* sequence of integer entries and `fn` names the elementwise real         *)
(* functions still to be applied to them (none for a plain array,          *)
(* <<"sigmoid">> for sigmoid(data), ...), so that real-valued results are  *)
(* kept exactly without computing exp.                                     *)
(***************************************************************************)
EXTENDS Integers, Sequences, FiniteSets, TLC

VARIABLES loaded, heap, models, maps, hist, last, nwrites

vars == <<loaded, heap, models, maps, hist, last, nwrites>>

(* ---------------------------- bounds ---------------------------------- *)
\* the in-place writes a trainer makes in one run
MaxWrites == 1

\* the objects of a run: the names models and state mappings are bound to
ModelIds == {1, 2}
MapIds == {1}

\* the layer sizes <<nvis, nhid>> models are built with, and the lengths of
\* the vectors the methods are called with
DimPairs == {<<2, 1>>, <<1, 2>>}
ArgLens == {1, 2, 3}

(* ---------------------------- arrays ---------------------------------- *)
\* fn is the sequence of function names applied, innermost last; <<>> is a
\* plain array
Arr(shape, data) == [shape |-> shape, data |-> data, fn |-> <<>>]

NoneVal == [shape |-> <<>>, data |-> <<>>, fn |-> <<"None">>]

Scalar(x) == [shape |-> <<>>, data |-> <<x>>, fn |-> <<>>]

Size(shape) == IF Len(shape) = 1 THEN shape[1] ELSE shape[1] * shape[2]

zeros(shape) == Arr(shape, [k \in 1..Size(shape) |-> 0])

ones(n) == Arr(<<n>>, [k \in 1..n |-> 1])

Flat(shape, idx) ==
    IF Len(shape) = 1 THEN idx[1] ELSE (idx[1] - 1) * shape[2] + idx[2]

Unflat(shape, k) ==
    IF Len(shape) = 1 THEN <<k>>
    ELSE <<((k - 1) \div shape[2]) + 1, ((k - 1) % shape[2]) + 1>>

\* numpy broadcasting of two arrays of the same rank: each pair of
\* dimensions must be equal or one of them 1.
BroadcastOk(s, t) ==
    /\ Len(s) = Len(t)
    /\ \A k \in 1..Len(s) : s[k] = t[k] \/ s[k] = 1 \/ t[k] = 1

BroadcastShape(s, t) == [k \in 1..Len(s) |-> IF s[k] = 1 THEN t[k] ELSE s[k]]

\* the entry of a that the broadcast result's index idx reads
At(a, idx) ==
    a.data[Flat(a.shape, [k \in 1..Len(idx) |->
                             IF a.shape[k] = 1 THEN 1 ELSE idx[k]])]

multiply(a, b) ==
    LET rs == BroadcastShape(a.shape, b.shape)
    IN  Arr(rs, [k \in 1..Size(rs) |->
                   At(a, Unflat(rs, k)) * At(b, Unflat(rs, k))])

add(a, b) ==
    LET rs == BroadcastShape(a.shape, b.shape)
    IN  Arr(rs, [k \in 1..Size(rs) |->
                   At(a, Unflat(rs, k)) + At(b, Unflat(rs, k))])

RECURSIVE SumSeq(_)
SumSeq(s) == IF s = <<>> THEN 0 ELSE Head(s) + SumSeq(Tail(s))

npsum(a) == SumSeq(a.data)

outer(h, v) ==
    LET r == Len(h.data)
        c == Len(v.data)
    IN  Arr(<<r, c>>, [k \in 1..(r * c) |->
              h.data[((k - 1) \div c) + 1] * v.data[((k - 1) % c) + 1]])

transpose(A) ==
    LET r == A.shape[1]
        c == A.shape[2]
    IN  Arr(<<c, r>>, [k \in 1..(r * c) |->
              A.data[Flat(A.shape, <<((k - 1) % r) + 1, ((k - 1) \div r) + 1>>)]])

\* np.dot of a matrix and a vector is defined only when the inner
\* dimensions agree; it never broadcasts.
DotOk(A, x) == Len(A.shape) = 2 /\ Len(x.shape) = 1 /\ A.shape[2] = x.shape[1]

dot(A, x) ==
    Arr(<<A.shape[1]>>,
        [j \in 1..A.shape[1] |->
            SumSeq([i \in 1..A.shape[2] |->
                       A.data[Flat(A.shape, <<j, i>>)] * x.data[i]])])

(* ------------------------- ebmlib/units.py ---------------------------- *)
\* the names bound at module level in units.py
units_globals ==
    {"numpy", "pthresh", "sigmoid", "tanh", "rectlinear", "linear",
     "dsigmoid", "dtanh", "dlinear", "drectlinear", "unittypes", "derivatives"}

Bound(name) == name \in units_globals

Ok(val) == [ret |-> val, err |-> "none"]

Raise(e) == [ret |-> NoneVal, err |-> e]

sigmoid(x) == [x EXCEPT !.fn = <<"sigmoid">> \o @]

numpy_tanh(x) == [x EXCEPT !.fn = <<"tanh">> \o @]

\* u[k] tells whether the uniform draw for entry k fell at or below
\* sigmoid(x[k]); sigmoid(x[k]) lies strictly between 0 and 1, so both happen
pthresh(x, u) == Arr(x.shape, [k \in 1..Size(x.shape) |-> IF u[k] THEN 1 ELSE 0])

\* the body reads a.shape, and units.py binds no name a
rectlinear(x) ==
    IF Bound("a") THEN Ok([x EXCEPT !.fn = <<"rectlinear">> \o @])
    ELSE Raise("NameError")

\* the body returns a, and units.py binds no name a
linear(x) == IF Bound("a") THEN Ok(x) ELSE Raise("NameError")

unittypes ==
    [pthresh |-> "units.pthresh", sigmoid |-> "units.sigmoid",
     tanh |-> "numpy.tanh", rectlinear |-> "units.rectlinear",
     linear |-> "units.linear"]

\* calling a registered function on x (u is the random draw pthresh makes)
CallUnit(f, x, u) ==
    CASE f = "units.pthresh" -> Ok(pthresh(x, u))
      [] f = "units.sigmoid" -> Ok(sigmoid(x))
      [] f = "numpy.tanh" -> Ok(numpy_tanh(x))
      [] f = "units.rectlinear" -> rectlinear(x)
      [] f = "units.linear" -> linear(x)

\* unittypes[name](x)
LookupAndCall(name, x, u) ==
    IF name \notin DOMAIN unittypes THEN Raise("KeyError")
    ELSE CallUnit(unittypes[name], x, u)

(* ------------------------ ebmlib/rbm/rbm.py --------------------------- *)
\* `from .. units import unittypes, sigmoid, rthresh, pthresh`
rbm_imports == {"unittypes", "sigmoid", "rthresh", "pthresh"}

\* importing ebmlib.rbm.rbm runs the module body: the from-import raises
\* ImportError at the first name units.py does not bind, before the class
\* statement is reached, and the class Rbm is then never defined
import_rbm ==
    IF \A n \in rbm_imports : Bound(n) THEN "class" ELSE "ImportError"

\* the global names the methods of Rbm resolve when the class statement
\* (rbm.py 33-136) has been executed on its own: those of the imported
\* names that units.py binds
rbm_globals == {"np", "Rbm"} \cup {n \in rbm_imports : Bound(n)}

\* the call rthresh(x) inside a method: the name is looked up when the
\* call is made, and units.py gives it no binding
rthresh(x) ==
    IF "rthresh" \in rbm_globals THEN Ok([x EXCEPT !.fn = <<"rthresh">> \o @])
    ELSE Raise("NameError")

ArrayFields == {"W", "vb", "hb", "dW", "dvb", "dhb"}

StateKeys == {"nvis", "nhid", "vtype", "htype"} \cup ArrayFields

\* what a method leaves behind: the heap, the object, the value returned
\* and the exception raised ("none" when it returns)
Out(hp, self, ret, err) == [heap |-> hp, self |-> self, ret |-> ret, err |-> err]

\* np.random.uniform(low = -0.2, high = 0.2, size = (nhid, nvis)): entries
\* are kept on an integer grid; the draw is one of a few matrices
Seeds == {0, 1}

uniform(seed, nhid, nvis) ==
    Arr(<<nhid, nvis>>, [k \in 1..(nhid * nvis) |-> ((seed + k) % 3) - 1])

init(hp, nvis, nhid, vtype, htype, seed) ==
    LET a == Len(hp)
        hp1 == hp \o <<uniform(seed, nhid, nvis), zeros(<<nvis>>), zeros(<<nhid>>),
                       zeros(<<nhid, nvis>>), zeros(<<nvis>>), zeros(<<nhid>>)>>
        s0 == [nvis |-> nvis, nhid |-> nhid,
               W |-> a + 1, vb |-> a + 2, hb |-> a + 3,
               dW |-> a + 4, dvb |-> a + 5, dhb |-> a + 6,
               htype |-> htype, vtype |-> vtype,
               hact |-> "unset", vact |-> "unset"]
    IN  IF htype \notin DOMAIN unittypes THEN Out(hp1, s0, NoneVal, "KeyError")
        ELSE LET s1 == [s0 EXCEPT !.hact = unittypes[htype]]
             IN  IF vtype \notin DOMAIN unittypes
                 THEN Out(hp1, s1, NoneVal, "KeyError")
                 ELSE Out(hp1, [s1 EXCEPT !.vact = unittypes[vtype]], NoneVal, "none")

\* ff, leaving the hidden pre-activation in the accumulator dhb
ff_accumulates(hp, self, v) ==
    LET W == hp[self.W]
        hb == hp[self.hb]
    IN  IF ~DotOk(W, v) THEN Out(hp, self, NoneVal, "ValueError")
        ELSE IF ~BroadcastOk(dot(W, v).shape, hb.shape)
        THEN Out(hp, self, NoneVal, "ValueError")
        ELSE Out([hp EXCEPT ![self.dhb] = add(dot(W, v), hb)], self,
                 sigmoid(add(dot(W, v), hb)), "none")

ff(hp, self, v) ==
    LET W == hp[self.W]
        hb == hp[self.hb]
    IN  IF ~DotOk(W, v) THEN Out(hp, self, NoneVal, "ValueError")
        ELSE IF ~BroadcastOk(dot(W, v).shape, hb.shape)
        THEN Out(hp, self, NoneVal, "ValueError")
        ELSE Out(hp, self, sigmoid(add(dot(W, v), hb)), "none")

fb(hp, self, h) ==
    LET WT == transpose(hp[self.W])
        vb == hp[self.vb]
    IN  IF ~DotOk(WT, h) THEN Out(hp, self, NoneVal, "ValueError")
        ELSE IF ~BroadcastOk(dot(WT, h).shape, vb.shape)
        THEN Out(hp, self, NoneVal, "ValueError")
        ELSE Out(hp, self, sigmoid(add(dot(WT, h), vb)), "none")

hid_sample(hp, self, h) ==
    LET r == rthresh(h) IN Out(hp, self, r.ret, r.err)

vis_sample(hp, self, v) ==
    LET r == rthresh(v) IN Out(hp, self, r.ret, r.err)

\* rthresh(self.fb(rthresh(self.ff(v)))): the outer callee is looked up
\* before its argument is evaluated
reconstruct(hp, self, v) ==
    IF "rthresh" \notin rbm_globals THEN Out(hp, self, NoneVal, "NameError")
    ELSE LET f == ff(hp, self, v)
         IN  IF f.err # "none" THEN f
             ELSE LET b == fb(hp, self, rthresh(f.ret).ret)
                  IN  IF b.err # "none" THEN b
                      ELSE Out(hp, self, rthresh(b.ret).ret, "none")

\* the value returned is vbias_term - sum(log(1 + exp(z))): data holds
\* vbias_term followed by the entries of z = np.dot(W, v) + hb
free_energy(hp, self, v) ==
    LET W == hp[self.W]
        vb == hp[self.vb]
        hb == hp[self.hb]
    IN  IF ~BroadcastOk(v.shape, vb.shape) THEN Out(hp, self, NoneVal, "ValueError")
        ELSE IF ~DotOk(W, v) THEN Out(hp, self, NoneVal, "ValueError")
        ELSE IF ~BroadcastOk(dot(W, v).shape, hb.shape)
        THEN Out(hp, self, NoneVal, "ValueError")
        ELSE LET vbias_term == -1 * npsum(multiply(v, vb))
                 z == add(dot(W, v), hb)
             IN  Out(hp, self,
                     [shape |-> <<>>, data |-> <<vbias_term>> \o z.data,
                      fn |-> <<"minus_sum_log1pexp">>],
                     "none")

\* energy with the outer product taken as np.outer(v, h)
energy_outer_vh(hp, self, v, h) ==
    LET W == hp[self.W]
        vb == hp[self.vb]
        hb == hp[self.hb]
    IN  IF ~BroadcastOk(v.shape, vb.shape) THEN Out(hp, self, NoneVal, "ValueError")
        ELSE IF ~BroadcastOk(h.shape, hb.shape)
        THEN Out(hp, self, NoneVal, "ValueError")
        ELSE IF ~BroadcastOk(W.shape, outer(v, h).shape)
        THEN Out(hp, self, NoneVal, "ValueError")
        ELSE LET vbias_term == -1 * npsum(multiply(v, vb))
                 hbias_term == -1 * npsum(multiply(h, hb))
                 vhterm == -1 * npsum(multiply(W, outer(v, h)))
             IN  Out(hp, self, Scalar(vbias_term + hbias_term + vhterm), "none")

energy(hp, self, v, h) ==
    LET W == hp[self.W]
        vb == hp[self.vb]
        hb == hp[self.hb]
    IN  IF ~BroadcastOk(v.shape, vb.shape) THEN Out(hp, self, NoneVal, "ValueError")
        ELSE IF ~BroadcastOk(h.shape, hb.shape)
        THEN Out(hp, self, NoneVal, "ValueError")
        ELSE IF ~BroadcastOk(W.shape, outer(h, v).shape)
        THEN Out(hp, self, NoneVal, "ValueError")
        ELSE LET vbias_term == -1 * npsum(multiply(v, vb))
                 hbias_term == -1 * npsum(multiply(h, hb))
                 vhterm == -1 * npsum(multiply(W, outer(h, v)))
             IN  Out(hp, self, Scalar(vbias_term + hbias_term + vhterm), "none")

\* the dict is built in the order of the source: W, vb, hb, dW, dhb, dvb
getstate(hp, self) ==
    LET a == Len(hp)
        hp1 == hp \o <<hp[self.W], hp[self.vb], hp[self.hb],
                       hp[self.dW], hp[self.dhb], hp[self.dvb]>>
        d == [nvis |-> self.nvis, nhid |-> self.nhid,
              vtype |-> self.vtype, htype |-> self.htype,
              W |-> a + 1, vb |-> a + 2, hb |-> a + 3,
              dW |-> a + 4, dhb |-> a + 5, dvb |-> a + 6]
    IN  [heap |-> hp1, self |-> self, d |-> d]

setstate(hp, self, d) ==
    LET s0 == [self EXCEPT !.nvis = d.nvis, !.nhid = d.nhid,
                           !.vtype = d.vtype, !.htype = d.htype,
                           !.W = d.W, !.vb = d.vb, !.hb = d.hb,
                           !.dW = d.dW, !.dvb = d.dvb, !.dhb = d.dhb]
    IN  IF s0.vtype \notin DOMAIN unittypes THEN Out(hp, s0, NoneVal, "KeyError")
        ELSE LET s1 == [s0 EXCEPT !.vact = unittypes[s0.vtype]]
             IN  IF s1.htype \notin DOMAIN unittypes
                 THEN Out(hp, s1, NoneVal, "KeyError")
                 ELSE Out(hp, [s1 EXCEPT !.hact = unittypes[s1.htype]], NoneVal, "none")

(* ------------------------------ state --------------------------------- *)
\* heap     the arrays allocated so far; an address is an index into it
\* models   the Rbm objects that exist, each a record of its attributes
\* maps     the state mappings that exist (dicts of the ten keys)
\* hist     for each mapping: the model it was taken from (0 when it was
\*          handed in from outside), its contents when it was made, and how
\*          often it has been passed to __setstate__ (0, 1, or 2 for more)
\* last     the last call: operation, receiver, arguments, result
\* nwrites  the number of in-place writes the trainer has made
Deep(hp, s) ==
    [nvis |-> s.nvis, nhid |-> s.nhid, vtype |-> s.vtype, htype |-> s.htype,
     W |-> hp[s.W], vb |-> hp[s.vb], hb |-> hp[s.hb],
     dW |-> hp[s.dW], dvb |-> hp[s.dvb], dhb |-> hp[s.dhb]]

Refs(s) == {s.W, s.vb, s.hb, s.dW, s.dvb, s.dhb}

Call(op, m, d, name, v, h, ret, err) ==
    [op |-> op, m |-> m, d |-> d, name |-> name, v |-> v, h |-> h,
     ret |-> ret, err |-> err]

\* the inputs the calls are made with
TypePairs ==
    {<<"pthresh", "sigmoid">>, <<"tanh", "linear">>,
     <<"not_a_real_type", "sigmoid">>, <<"pthresh", "not_a_real_type">>}

\* what a handed-in mapping says its types are
MapTypePairs ==
    {<<"pthresh", "sigmoid">>, <<"not_a_real_type", "sigmoid">>,
     <<"pthresh", "not_a_real_type">>}

\* the layouts <<rows, columns>> a handed-in mapping's arrays come in: that
\* of its nvis and nhid, or the transposed one
Layouts(nvis, nhid) == {<<nhid, nvis>>, <<nvis, nhid>>}

ArgVecs == {ones(n) : n \in ArgLens}

WriteIdx == {1}

WriteVals == {2}

ApplyNames == DOMAIN unittypes \cup {"not_a_real_type"}

ApplyVals == {-1, 0, 1}

ApplyArgs ==
    {Arr(<<1>>, d) : d \in [1..1 -> ApplyVals]}
      \cup {Arr(<<2>>, d) : d \in [1..2 -> ApplyVals]}
      \cup {Arr(<<2, 1>>, d) : d \in [1..2 -> ApplyVals]}

\* the parameters and the vectors energy is evaluated on
ParamVals == {-1, 0, 1}

EnergyVecs == UNION {{Arr(<<n>>, d) : d \in [1..n -> {-1, 1}]} : n \in {1, 2}}

Init ==
    /\ loaded = "no"
    /\ heap = <<>>
    /\ models = <<>>
    /\ maps = <<>>
    /\ hist = <<>>
    /\ last = Call("start", 0, 0, "", NoneVal, NoneVal, NoneVal, "none")
    /\ nwrites = 0

\* the class is defined and one model has been constructed and trained: W,
\* vb and hb hold any values
InitTrained ==
    \E n \in DimPairs :
       \E w \in [1..(n[1] * n[2]) -> ParamVals], b \in [1..n[1] -> ParamVals],
          c \in [1..n[2] -> ParamVals] :
          LET r == init(<<>>, n[1], n[2], "pthresh", "sigmoid", 0)
          IN  /\ loaded = "class"
              /\ heap = [r.heap EXCEPT ![r.self.W].data = w, ![r.self.vb].data = b,
                                       ![r.self.hb].data = c]
              /\ models = <<r.self>>
              /\ maps = <<>>
              /\ hist = <<>>
              /\ last = Call("start", 0, 0, "", NoneVal, NoneVal, NoneVal, "none")
              /\ nwrites = 0

(* ----------------------------- actions -------------------------------- *)
\* import ebmlib.rbm.rbm
ImportModule ==
    /\ loaded = "no"
    /\ loaded' = import_rbm
    /\ last' = Call("import", 0, 0, "", NoneVal, NoneVal, NoneVal,
                    IF import_rbm = "class" THEN "none" ELSE "ImportError")
    /\ UNCHANGED <<heap, models, maps, hist, nwrites>>

\* the class statement of rbm.py executed on its own, in a namespace that
\* holds what units.py provides: the method bodies are not evaluated, so
\* the class is defined whatever names they use
DefineClass ==
    /\ loaded # "class"
    /\ loaded' = "class"
    /\ last' = Call("class", 0, 0, "", NoneVal, NoneVal, NoneVal, "none")
    /\ UNCHANGED <<heap, models, maps, hist, nwrites>>

\* m = Rbm(nvis, nhid, vtype, htype); when __init__ raises, the name m is
\* not bound and the half-built object and its arrays are unreachable
Construct(nvis, nhid, vtype, htype, seed) ==
    /\ loaded = "class"
    /\ Len(models) + 1 \in ModelIds
    /\ LET r == init(heap, nvis, nhid, vtype, htype, seed)
       IN  /\ IF r.err = "none"
              THEN heap' = r.heap /\ models' = Append(models, r.self)
              ELSE UNCHANGED <<heap, models>>
           /\ last' = Call("init", IF r.err = "none" THEN Len(models) + 1 ELSE 0, 0,
                           "", NoneVal, NoneVal, r.ret, r.err)
    /\ UNCHANGED <<loaded, maps, hist, nwrites>>

\* d = models[m].__getstate__()
Snapshot(m) ==
    /\ Len(maps) + 1 \in MapIds
    /\ LET r == getstate(heap, models[m])
       IN  /\ heap' = r.heap
           /\ models' = [models EXCEPT ![m] = r.self]
           /\ maps' = Append(maps, r.d)
           /\ hist' = Append(hist, [src |-> m, taken |-> Deep(heap, models[m])])
           /\ last' = Call("getstate", m, Len(maps) + 1, "", NoneVal, NoneVal,
                           NoneVal, "none")
    /\ UNCHANGED <<loaded, nwrites>>

\* a mapping with the ten keys handed in by a persistence layer: it says
\* nvis, nhid, vtype, htype and carries arrays laid out for ah hidden and
\* av visible units
Deserialize(nvis, nhid, vtype, htype, ah, av) ==
    /\ Len(maps) + 1 \in MapIds
    /\ LET a == Len(heap)
           d == [nvis |-> nvis, nhid |-> nhid, vtype |-> vtype, htype |-> htype,
                 W |-> a + 1, vb |-> a + 2, hb |-> a + 3,
                 dW |-> a + 4, dvb |-> a + 5, dhb |-> a + 6]
       IN  /\ heap' = heap \o <<zeros(<<ah, av>>), zeros(<<av>>), zeros(<<ah>>),
                                zeros(<<ah, av>>), zeros(<<av>>), zeros(<<ah>>)>>
           /\ maps' = Append(maps, d)
           /\ hist' = Append(hist, [src |-> 0, taken |-> Deep(heap', d)])
           /\ last' = Call("deserialize", 0, Len(maps) + 1, "", NoneVal, NoneVal,
                           NoneVal, "none")
    /\ UNCHANGED <<loaded, models, nwrites>>

\* models[m].__setstate__(maps[d]); what was assigned before an exception
\* stays assigned
Restore(m, d) ==
    /\ LET r == setstate(heap, models[m], maps[d])
       IN  /\ heap' = r.heap
           /\ models' = [models EXCEPT ![m] = r.self]
           /\ last' = Call("setstate", m, d, "", NoneVal, NoneVal, r.ret, r.err)
    /\ UNCHANGED <<loaded, maps, hist, nwrites>>

\* the trainer's in-place write models[m].<f>.flat[k - 1] = x
Write(m, f, k, x) ==
    /\ nwrites < MaxWrites
    /\ k \in 1..Size(heap[models[m][f]].shape)
    /\ heap' = [heap EXCEPT ![models[m][f]].data[k] = x]
    /\ nwrites' = nwrites + 1
    /\ last' = Call("write", m, 0, f, NoneVal, NoneVal, NoneVal, "none")
    /\ UNCHANGED <<loaded, models, maps, hist>>

\* r is what the method op of models[m] left behind when called with the
\* visible vector v and the hidden vector h (NoneVal for one it does not take)
Query(op, m, v, h, r) ==
    /\ heap' = r.heap
    /\ models' = [models EXCEPT ![m] = r.self]
    /\ last' = Call(op, m, 0, "", v, h, r.ret, r.err)
    /\ UNCHANGED <<loaded, maps, hist, nwrites>>

Forward(m, v) == Query("ff", m, v, NoneVal, ff(heap, models[m], v))

Backward(m, h) == Query("fb", m, NoneVal, h, fb(heap, models[m], h))

SampleHidden(m, h) ==
    Query("hid_sample", m, NoneVal, h, hid_sample(heap, models[m], h))

SampleVisible(m, v) ==
    Query("vis_sample", m, v, NoneVal, vis_sample(heap, models[m], v))

Reconstruct(m, v) ==
    Query("reconstruct", m, v, NoneVal, reconstruct(heap, models[m], v))

FreeEnergy(m, v) ==
    Query("free_energy", m, v, NoneVal, free_energy(heap, models[m], v))

Energy(m, v, h) == Query("energy", m, v, h, energy(heap, models[m], v, h))

\* unittypes[name](x)
Apply(name, x, u) ==
    /\ LET r == LookupAndCall(name, x, u)
       IN  last' = Call("apply", 0, 0, name, x, NoneVal, r.ret, r.err)
    /\ UNCHANGED <<loaded, heap, models, maps, hist, nwrites>>

Draws(name, x) ==
    IF name = "pthresh" THEN [1..Size(x.shape) -> BOOLEAN]
    ELSE {[k \in 1..Size(x.shape) |-> FALSE]}

\* the ways the class Rbm is asked for
Load == ImportModule \/ DefineClass

\* the calls that build, save, restore and train models
Lifecycle ==
    \/ \E n \in DimPairs, t \in TypePairs, seed \in Seeds :
          Construct(n[1], n[2], t[1], t[2], seed)
    \/ \E m \in 1..Len(models) : Snapshot(m)
    \/ \E m \in 1..Len(models), d \in 1..Len(maps) : Restore(m, d)
    \/ \E m \in 1..Len(models), f \in ArrayFields, k \in WriteIdx, x \in WriteVals :
          Write(m, f, k, x)

\* a mapping arriving from outside
External ==
    \E n \in DimPairs, t \in MapTypePairs :
       \E l \in Layouts(n[1], n[2]) : Deserialize(n[1], n[2], t[1], t[2], l[1], l[2])

\* the calls that ask a model something
Queries ==
    \/ \E m \in 1..Len(models), v \in ArgVecs : Forward(m, v)
    \/ \E m \in 1..Len(models), h \in ArgVecs : Backward(m, h)
    \/ \E m \in 1..Len(models), h \in ArgVecs : SampleHidden(m, h)
    \/ \E m \in 1..Len(models), v \in ArgVecs : SampleVisible(m, v)
    \/ \E m \in 1..Len(models), v \in ArgVecs : Reconstruct(m, v)
    \/ \E m \in 1..Len(models), v \in ArgVecs : FreeEnergy(m, v)
    \/ \E m \in 1..Len(models), v \in ArgVecs, h \in ArgVecs : Energy(m, v, h)

\* the calls of the activation library
Units ==
    \E name \in ApplyNames, x \in ApplyArgs :
       \E u \in Draws(name, x) : Apply(name, x, u)

Next == Load \/ Lifecycle \/ External \/ Queries \/ Units

Spec == Init /\ [][Next]_vars

\* the runs that only build, train, save and restore models
SpecLifecycle == Init /\ [][Load \/ Lifecycle]_vars

\* the same, with mappings arriving from outside as well
SpecPersist == Init /\ [][Load \/ Lifecycle \/ External]_vars

\* one model with the default unit types, trained, saved, restored and
\* queried
SpecQuery ==
    Init /\ [][\/ Load
               \/ \E n \in DimPairs, seed \in Seeds :
                     /\ Len(models) = 0
                     /\ Construct(n[1], n[2], "pthresh", "sigmoid", seed)
               \/ \E m \in 1..Len(models) : Snapshot(m)
               \/ \E m \in 1..Len(models), d \in 1..Len(maps) : Restore(m, d)
               \/ \E m \in 1..Len(models), f \in ArrayFields, k \in WriteIdx,
                     x \in WriteVals : Write(m, f, k, x)
               \/ Queries]_vars

\* one call of energy on a trained model
SpecEnergy ==
    InitTrained /\ [][/\ last.op = "start"
                      /\ \E v \in EnergyVecs, h \in EnergyVecs : Energy(1, v, h)]_vars

\* the runs of the activation library alone
SpecUnits == Init /\ [][Units]_vars

(* ------------------------------ claims -------------------------------- *)
ModelSet == 1..Len(models)

MapSet == 1..Len(maps)

\* a model rebuilt from the contents a mapping had when it was made
HeapOf(t) == <<t.W, t.vb, t.hb, t.dW, t.dvb, t.dhb>>

SelfOf(t) ==
    [nvis |-> t.nvis, nhid |-> t.nhid, W |-> 1, vb |-> 2, hb |-> 3,
     dW |-> 4, dvb |-> 5, dhb |-> 6, htype |-> t.htype, vtype |-> t.vtype,
     hact |-> unittypes[t.htype], vact |-> unittypes[t.vtype]]

\* C1: a snapshot taken from a model by __getstate__ keeps the values it was
\* made with, whatever is written in place into the live models afterwards.
C1_SnapshotIndependent ==
    \A d \in MapSet : hist[d].src # 0 => Deep(heap, maps[d]) = hist[d].taken

\* C2: __setstate__ copies the fields back: an in-place write into a model
\* changes no mapping and no other model.
C2_RestoreCopies ==
    [][last'.op = "write" =>
          /\ \A d \in MapSet : Deep(heap', maps[d]) = Deep(heap, maps[d])
          /\ \A m \in ModelSet \ {last'.m} :
                Deep(heap', models[m]) = Deep(heap, models[m])]_vars

\* C3: a mapping made by __getstate__ has exactly the ten keys and the
\* model's values; every model that receives it in __setstate__ has the ten
\* values the source model had at snapshot time, vact and hact are the registry's entries for its vtype and
\* htype, and ff, fb and energy return what they returned on the source.
C3_RoundTrip ==
    /\ \A d \in MapSet : DOMAIN maps[d] = StateKeys
    /\ last.op = "getstate" =>
          Deep(heap, maps[last.d]) = Deep(heap, models[last.m])
    /\ (last.op = "setstate" /\ hist[last.d].src # 0) =>
          LET s == models[last.m]
              t == hist[last.d].taken
          IN  /\ last.err = "none"
              /\ Deep(heap, s) = t
              /\ s.vact = unittypes[s.vtype]
              /\ s.hact = unittypes[s.htype]
              /\ \A v \in ArgVecs :
                    /\ ff(heap, s, v).ret = ff(HeapOf(t), SelfOf(t), v).ret
                    /\ ff(heap, s, v).err = ff(HeapOf(t), SelfOf(t), v).err
                    /\ fb(heap, s, v).ret = fb(HeapOf(t), SelfOf(t), v).ret
                    /\ fb(heap, s, v).err = fb(HeapOf(t), SelfOf(t), v).err
                    /\ \A h \in ArgVecs :
                          /\ energy(heap, s, v, h).ret
                                = energy(HeapOf(t), SelfOf(t), v, h).ret
                          /\ energy(heap, s, v, h).err
                                = energy(HeapOf(t), SelfOf(t), v, h).err

\* C4: the vtype and htype of every model that exists are keys of the
\* registry, whatever calls were made, failed ones included.
C4_TypesRegistered ==
    \A m \in ModelSet :
       models[m].vtype \in DOMAIN unittypes /\ models[m].htype \in DOMAIN unittypes

\* C5: every model's arrays have the shapes its nvis and nhid give, also
\* after __setstate__ from any mapping that carries the ten keys.
C5_ShapeInvariant ==
    \A m \in ModelSet :
       LET s == models[m]
       IN  /\ heap[s.W].shape = <<s.nhid, s.nvis>>
           /\ heap[s.vb].shape = <<s.nvis>>
           /\ heap[s.hb].shape = <<s.nhid>>
           /\ heap[s.dW].shape = heap[s.W].shape
           /\ heap[s.dvb].shape = heap[s.vb].shape
           /\ heap[s.dhb].shape = heap[s.hb].shape

\* C6: ff, fb, free_energy and energy called with a v whose length is not
\* nvis, or an h whose length is not nhid, end in an error and return nothing.
C6_DimensionMismatchIsError ==
    (\/ /\ last.op \in {"ff", "free_energy", "energy"}
        /\ Len(last.v.data) # models[last.m].nvis
     \/ /\ last.op \in {"fb", "energy"}
        /\ Len(last.h.data) # models[last.m].nhid)
      => last.err # "none" /\ last.ret = NoneVal

RECURSIVE SumOver(_, _)
SumOver(f, S) ==
    IF S = {} THEN 0
    ELSE LET x == CHOOSE y \in S : TRUE IN f[x] + SumOver(f, S \ {x})

\* C7: for v of length nvis and h of length nhid, energy(v, h) is
\* -sum_i v_i*vb_i - sum_j h_j*hb_j - sum_{i,j} W[j][i]*h_j*v_i.
C7_EnergyFormula ==
    (/\ last.op = "energy"
     /\ Len(last.v.data) = models[last.m].nvis
     /\ Len(last.h.data) = models[last.m].nhid)
      => LET s == models[last.m]
             I == 1..s.nvis
             J == 1..s.nhid
             W == heap[s.W].data
             vb == heap[s.vb].data
             hb == heap[s.hb].data
             v == last.v.data
             h == last.h.data
         IN  /\ last.err = "none"
             /\ last.ret =
                  Scalar(0 - SumOver([i \in I |-> v[i] * vb[i]], I)
                           - SumOver([j \in J |-> h[j] * hb[j]], J)
                           - SumOver([p \in J \X I |->
                                        W[(p[1] - 1) * s.nvis + p[2]] * h[p[1]] * v[p[2]]],
                                     J \X I))

\* the case the specification works out: nvis = 2, nhid = 1, W = [[1, -1]],
\* vb = [0, 0], hb = [0], v = [1, 1], h = [1] gives 0
C7_Witness ==
    /\ last.op = "energy"
    /\ models[1].nvis = 2
    /\ models[1].nhid = 1
    /\ heap[models[1].W].data = <<1, -1>>
    /\ heap[models[1].vb].data = <<0, 0>>
    /\ heap[models[1].hb].data = <<0>>
    /\ last.v.data = <<1, 1>>
    /\ last.h.data = <<1>>
    /\ last.err = "none"
    /\ last.ret = Scalar(0)

\* C8: for each of the five registered names the lookup succeeds and the
\* function found returns an array of its argument's shape, linear its
\* argument itself.
C8_RegisteredNamesApply ==
    (last.op = "apply" /\ last.name \in DOMAIN unittypes)
      => /\ last.err = "none"
         /\ last.ret.shape = last.v.shape
         /\ last.name = "linear" => last.ret = last.v

IsBinary(x, shape) ==
    /\ x.shape = shape
    /\ x.fn = <<>>
    /\ \A k \in 1..Len(x.data) : x.data[k] \in {0, 1}

\* C9: the module that defines the sampling methods loads; hid_sample and
\* vis_sample return a 0/1 vector of their argument's length, and
\* reconstruct(v) a 0/1 vector of length nvis, without error.
C9_SamplingThresholds ==
    /\ last.op = "import" => last.err = "none"
    /\ last.op = "hid_sample" => last.err = "none" /\ IsBinary(last.ret, last.h.shape)
    /\ last.op = "vis_sample" => last.err = "none" /\ IsBinary(last.ret, last.v.shape)
    /\ (last.op = "reconstruct" /\ Len(last.v.data) = models[last.m].nvis)
          => last.err = "none" /\ IsBinary(last.ret, <<models[last.m].nvis>>)

QueryOps ==
    {"ff", "fb", "hid_sample", "vis_sample", "reconstruct", "free_energy", "energy"}

Acc(hp, s) == <<s.dW, s.dvb, s.dhb, hp[s.dW], hp[s.dvb], hp[s.dhb]>>

\* the heap with the accumulators of s cleared
ZeroAcc(hp, s) ==
    [a \in 1..Len(hp) |->
        IF a \in {s.dW, s.dvb, s.dhb} THEN zeros(hp[a].shape) ELSE hp[a]]

ResultOf(op, hp, s, v, h) ==
    CASE op = "ff" -> ff(hp, s, v)
      [] op = "fb" -> fb(hp, s, h)
      [] op = "hid_sample" -> hid_sample(hp, s, h)
      [] op = "vis_sample" -> vis_sample(hp, s, v)
      [] op = "reconstruct" -> reconstruct(hp, s, v)
      [] op = "free_energy" -> free_energy(hp, s, v)
      [] op = "energy" -> energy(hp, s, v, h)

\* C10: the seven queries and __getstate__ leave every model's ten fields as
\* they were; the accumulators dW, dvb, dhb are zero after __init__, change
\* only in __setstate__ (and under the trainer's own writes), and no query's
\* result depends on them.
C10_Frame ==
    /\ []((last.op = "init" /\ last.err = "none") =>
             LET s == models[last.m]
             IN  /\ heap[s.dW] = zeros(<<s.nhid, s.nvis>>)
                 /\ heap[s.dvb] = zeros(<<s.nvis>>)
                 /\ heap[s.dhb] = zeros(<<s.nhid>>))
    /\ [][/\ last'.op \in QueryOps \cup {"getstate"} =>
                /\ models' = models
                /\ \A m \in ModelSet : Deep(heap', models[m]) = Deep(heap, models[m])
          /\ \A m \in ModelSet :
                Acc(heap', models'[m]) # Acc(heap, models[m])
                   => last'.op \in {"setstate", "write"}
          /\ last'.op \in QueryOps =>
                LET s == models[last'.m]
                    r == ResultOf(last'.op, ZeroAcc(heap, s), s, last'.v, last'.h)
                IN  last'.ret = r.ret /\ last'.err = r.err]_vars

\* a query answered by a model whose accumulator dhb the trainer has written
C10_Witness ==
    /\ last.op = "ff"
    /\ last.err = "none"
    /\ heap[models[last.m].dhb].data[1] = 2
    /\ heap[models[last.m].hb].data[1] = 0

====
